---------------------------- MODULE Spec2Model ----------------------------
(***************************************************************************)
(* SafeTravel (src/app.py): the community-report store kept in Streamlit   *)
(* session state and in reports.csv, and the helper functions              *)
(* filter_by_time, incidents_within_radius and the hotspot ranking.        *)
(*                                                                         *)
(* A Streamlit script is re-executed from its first line on every user     *)
(* interaction of a session.  One execution is one atomic step here: the   *)
(* session initialisation (lines 87-88), the load-merge of reports.csv     *)
(* (lines 92-104) and, when the form was submitted, the submit handler     *)
(* (lines 315-354).                                                        *)
(***************************************************************************)
EXTENDS Integers, Sequences, FiniteSets, TLC

VARIABLES
    mem,        \* session -> st.session_state.app_data['user_reports'] (rows)
    started,    \* session -> 'app_data' in st.session_state
    log,        \* the data lines of reports.csv, in file order
    exists,     \* os.path.exists(REPORTS_FILE)
    nextUuid,   \* number of uuid.uuid4() values handed out so far
    submitted,  \* session -> ids built by its submit handler (history)
    signalled,  \* session -> ids for which st.success was shown (history)
    df,         \* argument of the helper function under check
    arg,        \* remaining arguments of the helper function under check
    result,     \* value returned by the helper function under check
    phase       \* "store", or "input" then "done" around a helper call

vars == <<mem, started, log, exists, nextUuid, submitted, signalled,
          df, arg, result, phase>>

storeVars == <<mem, started, log, exists, nextUuid, submitted, signalled>>
funVars == <<df, arg, result, phase>>

---------------------------------------------------------------------------
(* Bounds of the model *)

NumSessions == 2
MaxReports == 3
NumSeed == 2
MaxLogRows == 3
MaxRows == 4
MaxPos == 3
MaxRadius == 2
NumAreas == 3

Sessions == 1..NumSessions

---------------------------------------------------------------------------
(* Identifiers and rows *)

\* generate_user_reports: 'id': str(uuid.uuid4()) for each seed row.
SeedId(i) == <<"seed", i>>
SeedIds == {SeedId(i) : i \in 1..NumSeed}

\* An id found in a reports.csv that this program did not write.
ForeignIds == {<<"file", 1>>}

\* uuid.uuid4(): the k-th value handed out.  uuid4 values are taken to be
\* distinct from one another and from every id already in use.
Uuid4(k) == <<"uuid", k>>
UuidIds == {Uuid4(k) : k \in 1..MaxReports}

\* The form's area_name: "" for the two coordinate modes, else the text.
FormAreas == {"", "Gomti Nagar"}

\* create_initial_data()['user_reports']: cached, the same for each session.
SeedReports == [i \in 1..NumSeed |-> [id |-> SeedId(i), area |-> "Hazratganj"]]

IdsOf(m) == {m[i].id : i \in 1..Len(m)}
Count(m, id) == Cardinality({i \in 1..Len(m) : m[i].id = id})

---------------------------------------------------------------------------
(* reports.csv *)

\* A line with more fields than the header: pandas' C parser raises
\* ParserError for the whole file.
BadLine == [kind |-> "bad"]

\* DataFrame([new_report]).to_csv: one text line; '' is written as an
\* empty field.
ToCsvLine(rec) == [kind |-> "row", id |-> rec.id, area |-> rec.area]

\* pd.read_csv on one well-formed line: an empty field is read back as NaN.
ParseLine(line) ==
    [id |-> line.id, area |-> IF line.area = "" THEN "NaN" ELSE line.area]

\* pd.read_csv raises when any line cannot be tokenised.
ReadCsvRaises(lg) == \E i \in 1..Len(lg) : lg[i].kind = "bad"

ReadCsv(lg) == [i \in 1..Len(lg) |-> ParseLine(lg[i])]

\* LoadMerge without the test against existing_ids at line 98.
LoadMergeNoIdCheck(m, lg, ex) ==
    IF ~ex THEN m
    ELSE IF ReadCsvRaises(lg) THEN m
    ELSE m \o ReadCsv(lg)

\* Lines 92-104.  existing_ids is computed once, before the loop.
LoadMerge(m, lg, ex) ==
    IF ~ex THEN m
    ELSE IF ReadCsvRaises(lg) THEN m
    ELSE LET saved == ReadCsv(lg)
             existing_ids == IdsOf(m)
         IN  m \o SelectSeq(saved, LAMBDA row : row.id \notin existing_ids)

\* SaveToCsv with to_csv's default mode 'w' on both branches.
SaveToCsvTruncating(lg, rec) == <<ToCsvLine(rec)>>

\* Lines 348-352: append one line (the header is written with the first).
SaveToCsv(lg, rec) == Append(lg, ToCsvLine(rec))

\* Lines 87-88 followed by lines 92-104.
SessionData(s) ==
    LoadMerge(IF started[s] THEN mem[s] ELSE SeedReports, log, exists)

---------------------------------------------------------------------------
(* One script execution *)

\* A run in which the form was not submitted.
Rerun(s) ==
    /\ phase = "store"
    /\ mem' = [mem EXCEPT ![s] = SessionData(s)]
    /\ started' = [started EXCEPT ![s] = TRUE]
    /\ UNCHANGED <<log, exists, nextUuid, submitted, signalled, funVars>>

\* A run in which the form was submitted and to_csv returned.
SubmitReport(s, area) ==
    /\ phase = "store"
    /\ started[s]
    /\ nextUuid < MaxReports
    /\ LET new_report == [id |-> Uuid4(nextUuid + 1), area |-> area]
       IN  /\ mem' = [mem EXCEPT ![s] = Append(SessionData(s), new_report)]
           /\ log' = SaveToCsv(log, new_report)
           /\ exists' = TRUE
           /\ submitted' = [submitted EXCEPT ![s] = @ \cup {new_report.id}]
           /\ signalled' = [signalled EXCEPT ![s] = @ \cup {new_report.id}]
    /\ nextUuid' = nextUuid + 1
    /\ UNCHANGED <<started, funVars>>

\* SubmitWriteFails with the exception swallowed, so that line 353 is run.
SubmitWriteFailsSilently(s, area) ==
    /\ phase = "store"
    /\ started[s]
    /\ nextUuid < MaxReports
    /\ LET new_report == [id |-> Uuid4(nextUuid + 1), area |-> area]
       IN  /\ mem' = [mem EXCEPT ![s] = Append(SessionData(s), new_report)]
           /\ submitted' = [submitted EXCEPT ![s] = @ \cup {new_report.id}]
           /\ signalled' = [signalled EXCEPT ![s] = @ \cup {new_report.id}]
    /\ nextUuid' = nextUuid + 1
    /\ UNCHANGED <<started, log, exists, funVars>>

\* A run in which the form was submitted and to_csv raised (the file could
\* not be opened for writing): the script stops at line 350/352, after the
\* session data was extended at lines 342-345.
SubmitWriteFails(s, area) ==
    /\ phase = "store"
    /\ started[s]
    /\ nextUuid < MaxReports
    /\ LET new_report == [id |-> Uuid4(nextUuid + 1), area |-> area]
       IN  /\ mem' = [mem EXCEPT ![s] = Append(SessionData(s), new_report)]
           /\ submitted' = [submitted EXCEPT ![s] = @ \cup {new_report.id}]
    /\ nextUuid' = nextUuid + 1
    /\ UNCHANGED <<started, log, exists, signalled, funVars>>

NextStore ==
    \/ \E s \in Sessions : Rerun(s)
    \/ \E s \in Sessions, area \in FormAreas : SubmitReport(s, area)
    \/ \E s \in Sessions, area \in FormAreas : SubmitWriteFails(s, area)

InitFun ==
    /\ df = <<>>
    /\ arg = <<>>
    /\ result = <<>>
    /\ phase = "store"

InitSessions ==
    /\ mem = [s \in Sessions |-> <<>>]
    /\ started = [s \in Sessions |-> FALSE]
    /\ nextUuid = 0
    /\ submitted = [s \in Sessions |-> {}]
    /\ signalled = [s \in Sessions |-> {}]

\* First deployment: no reports.csv yet.
Init ==
    /\ InitSessions
    /\ log = <<>>
    /\ exists = FALSE
    /\ InitFun

Spec == Init /\ [][NextStore]_vars

---------------------------------------------------------------------------
(* A reports.csv that was on disk before the program first ran *)

WellFormedLines ==
    {[kind |-> "row", id |-> i, area |-> "Aliganj"] :
        i \in {SeedId(1)} \cup ForeignIds}

LogsOver(lines) == UNION {[1..n -> lines] : n \in 0..MaxLogRows}

InitWithLog(lines) ==
    /\ InitSessions
    /\ log \in LogsOver(lines)
    /\ exists = TRUE
    /\ InitFun

\* reports.csv holds well-formed lines only, possibly repeating an id.
SpecWellFormedLog == InitWithLog(WellFormedLines) /\ [][NextStore]_vars

\* reports.csv holds any mix of well-formed and malformed lines.
SpecAnyLog ==
    InitWithLog(WellFormedLines \cup {BadLine}) /\ [][NextStore]_vars

---------------------------------------------------------------------------
(* Helper functions (lines 156-176) and the hotspot ranking (403-413) *)

\* datetime.min, the 'since' of the else branch; time is counted in days.
datetime_min == 0
Now == datetime_min + 40

TimeFilters == {"Last 24 Hours", "Last 7 Days", "Last 30 Days", "All Time"}

\* Neither helper raises: what it returns is wrapped as a normal return.
Returned(v) == [raised |-> FALSE, value |-> v]

filter_by_time(frame, time_filter_val) ==
    LET since ==
            IF time_filter_val = "Last 24 Hours" THEN Now - 1
            ELSE IF time_filter_val = "Last 7 Days" THEN Now - 7
            ELSE IF time_filter_val = "Last 30 Days" THEN Now - 30
            ELSE datetime_min
    IN  Returned(SelectSeq(frame, LAMBDA row : row.timestamp >= since))

\* geopy's geodesic(...).meters between two points of one meridian, in
\* units of one grid step of latitude.
Geodesic(a, b) == IF a >= b THEN a - b ELSE b - a

\* list.sort(key=...) is stable: x goes behind every element whose key is
\* not larger.
RECURSIVE InsertByKey(_, _)
InsertByKey(sorted, x) ==
    IF sorted = <<>> THEN <<x>>
    ELSE IF sorted[Len(sorted)].d_m <= x.d_m THEN Append(sorted, x)
    ELSE Append(InsertByKey(SubSeq(sorted, 1, Len(sorted) - 1), x),
                sorted[Len(sorted)])

RECURSIVE SortByDistance(_)
SortByDistance(nearby) ==
    IF nearby = <<>> THEN <<>>
    ELSE InsertByKey(SortByDistance(SubSeq(nearby, 1, Len(nearby) - 1)),
                     nearby[Len(nearby)])

\* incidents_within_radius with 'd_m < radius_m' at line 172.
incidents_within_radius_strict(frame, user_loc, radius_m) ==
    LET measured == [i \in 1..Len(frame) |->
                        [row |-> i, d_m |-> Geodesic(user_loc, frame[i].lat)]]
        nearby == SelectSeq(measured, LAMBDA x : x.d_m < radius_m)
    IN  Returned(SortByDistance(nearby))

\* Lines 168-176.  A row is named by its place in the frame.
incidents_within_radius(frame, user_loc, radius_m) ==
    LET measured == [i \in 1..Len(frame) |->
                        [row |-> i, d_m |-> Geodesic(user_loc, frame[i].lat)]]
        nearby == SelectSeq(measured, LAMBDA x : x.d_m <= radius_m)
    IN  Returned(SortByDistance(nearby))

\* Areas are numbered in the ascending order of their names, the order in
\* which groupby('area') lists its groups.
Areas == 1..NumAreas

\* Lines 403-406: one entry per area present in the frame.
area_stats(frame) ==
    LET present == {frame[i].area : i \in 1..Len(frame)}
    IN  [a \in present |->
            [high_risk_incidents |->
                 Cardinality({i \in 1..Len(frame) :
                     frame[i].area = a /\ frame[i].severity = "HIGH"}),
             total_incidents |->
                 Cardinality({i \in 1..Len(frame) : frame[i].area = a})]]

\* head(3) at line 412.
TopN == 3

FirstRows(seq, n) == SubSeq(seq, 1, IF Len(seq) < n THEN Len(seq) ELSE n)

\* Line 411: the orders sort_values('high_risk_incidents', ascending=False)
\* can return.  Its default kind is 'quicksort', which is not stable, so the
\* order among equal counts is any.
SortValuesOutcomes(stats) ==
    LET keep == {a \in DOMAIN stats : stats[a].high_risk_incidents > 0}
        n == Cardinality(keep)
    IN  {p \in [1..n -> keep] :
            /\ \A i, j \in 1..n : p[i] = p[j] => i = j
            /\ \A i, j \in 1..n :
                 i < j => stats[p[i]].high_risk_incidents
                              >= stats[p[j]].high_risk_incidents}

\* Lines 411-412.
high_risk_areas(frame) ==
    {Returned(FirstRows(p, TopN)) : p \in SortValuesOutcomes(area_stats(frame))}

Frames(rows) == UNION {[1..n -> rows] : n \in 0..MaxRows}

ApplyFilterByTime ==
    /\ phase = "input"
    /\ arg.fn = "filter_by_time"
    /\ result' = filter_by_time(df, arg.time_filter_val)
    /\ phase' = "done"
    /\ UNCHANGED <<df, arg, storeVars>>

ApplyWithinRadius ==
    /\ phase = "input"
    /\ arg.fn = "incidents_within_radius"
    /\ result' = incidents_within_radius(df, arg.user_loc, arg.radius_m)
    /\ phase' = "done"
    /\ UNCHANGED <<df, arg, storeVars>>

ApplyRanking ==
    /\ phase = "input"
    /\ arg.fn = "high_risk_areas"
    /\ result' \in high_risk_areas(df)
    /\ phase' = "done"
    /\ UNCHANGED <<df, arg, storeVars>>

NextHelpers ==
    \/ ApplyFilterByTime
    \/ ApplyWithinRadius
    \/ ApplyRanking

InitHelpers ==
    /\ InitSessions
    /\ log = <<>>
    /\ exists = FALSE
    /\ phase = "input"
    /\ result = <<>>
    /\ \/ /\ df \in Frames([timestamp :
                     {Now - d : d \in {0, 1, 2, 7, 8, 30, 31}}]) \ {<<>>}
          /\ arg \in [fn : {"filter_by_time"},
                      time_filter_val : TimeFilters \cup {"Last Year"}]
       \/ /\ df \in Frames([lat : 0..MaxPos])
          /\ arg \in [fn : {"incidents_within_radius"},
                      user_loc : 0..MaxPos,
                      radius_m : (-1)..MaxRadius]
       \/ /\ df \in Frames([area : Areas, severity : {"HIGH", "LOW"}])
          /\ arg = [fn |-> "high_risk_areas"]

SpecHelpers == InitHelpers /\ [][NextHelpers]_vars

---------------------------------------------------------------------------
(* Properties of the report store *)

LineIds(lg) == {lg[i].id : i \in {j \in 1..Len(lg) : lg[j].kind = "row"}}

NoDuplicateIds(m) == \A i, j \in 1..Len(m) : m[i].id = m[j].id => i = j

Committed == UNION {signalled[s] : s \in Sessions}

\* C1: in every reachable state no two records of a session's report store
\* share an id, and a submit step whose new id is already in the store
\* leaves the store and reports.csv unchanged.
C1_IdsUnique ==
    [][\A s \in Sessions :
         /\ NoDuplicateIds(mem'[s])
         /\ \A id \in submitted'[s] \ submitted[s] :
               id \in IdsOf(SessionData(s)) =>
                   /\ mem'[s] = SessionData(s)
                   /\ log' = log]_vars

\* C2: a session that starts (fresh seed data merged with reports.csv) holds
\* exactly the seed ids and the ids of all reports appended so far.
C2_RoundTrip ==
    [][\A s \in Sessions :
         (~started[s] /\ started'[s]) =>
             IdsOf(mem'[s]) = SeedIds \cup Committed]_vars

\* C2 witness: a session that submitted nothing itself holds two appended
\* reports, while a report whose write failed exists elsewhere.
C2_Witness ==
    \E s \in Sessions :
        /\ started[s]
        /\ submitted[s] = {}
        /\ Cardinality(IdsOf(mem[s]) \cap UuidIds) >= 2
        /\ IdsOf(mem[s]) = SeedIds \cup Committed

\* C3: after a failed write the new report is not in memory, so every
\* submitted report held in memory is also in reports.csv.
C3_RolledBack ==
    \A s \in Sessions : (submitted[s] \cap IdsOf(mem[s])) \subseteq LineIds(log)

\* C4: each load brings every well-formed line of reports.csv into memory,
\* whatever malformed lines stand before or after it.
C4_SkipsOnlyMalformed ==
    [][\A s \in Sessions : Rerun(s) => LineIds(log) \subseteq IdsOf(mem'[s])]_vars

\* C5: a load adds each log id that memory lacks exactly once and keeps the
\* in-memory records, and their number per id, as they were.
C5_MergeDeduplicates ==
    [][\A s \in Sessions :
         Rerun(s) =>
             LET pre == IF started[s] THEN mem[s] ELSE SeedReports
             IN  /\ \A id \in LineIds(log) \ IdsOf(pre) : Count(mem'[s], id) = 1
                 /\ \A id \in IdsOf(pre) : Count(mem'[s], id) = Count(pre, id)
                 /\ SubSeq(mem'[s], 1, Len(pre)) = pre]_vars

\* C6: success is shown only for reports that are both in the session's
\* memory and in reports.csv.
C6_CommittedInBoth ==
    \A s \in Sessions : signalled[s] \subseteq (IdsOf(mem[s]) \cap LineIds(log))

\* C6 witness: one report was committed and shown, another one's write
\* failed and was not shown.
C6_Witness ==
    \E s \in Sessions :
        /\ signalled[s] # {}
        /\ submitted[s] \ signalled[s] # {}

\* C10: running the load-merge again on an unchanged reports.csv changes
\* nothing, no id is held twice, and every report a session submitted is
\* held exactly once by it.
C10_MergeIdempotent ==
    \A s \in Sessions :
        started[s] =>
            LET once == LoadMerge(mem[s], log, exists)
            IN  /\ LoadMerge(once, log, exists) = once
                /\ NoDuplicateIds(once)
                /\ NoDuplicateIds(mem[s])
                /\ \A id \in submitted[s] : Count(mem[s], id) = 1

\* C10 witness: a session committed a report, another session committed a
\* later one, and a re-run of the first session merged it.
C10_Witness ==
    \E s, t \in Sessions :
        /\ s # t
        /\ submitted[s] = {Uuid4(1)}
        /\ signalled[s] = {Uuid4(1)}
        /\ Uuid4(2) \in signalled[t]
        /\ Uuid4(2) \in IdsOf(mem[s])

---------------------------------------------------------------------------
(* Properties of the helper functions *)

Done(fn) == phase = "done" /\ arg.fn = fn

WithinIdx == {i \in 1..Len(df) : Geodesic(arg.user_loc, df[i].lat) <= arg.radius_m}

\* C7: incidents_within_radius returns exactly the rows at distance <= r,
\* each once and with its distance, in non-decreasing distance, rows at
\* equal distance in their input order.
C7_WithinRadiusSorted ==
    Done("incidents_within_radius") =>
        LET out == result.value
        IN  /\ ~result.raised
            /\ {out[k].row : k \in 1..Len(out)} = WithinIdx
            /\ Len(out) = Cardinality(WithinIdx)
            /\ \A k \in 1..Len(out) :
                   out[k].d_m = Geodesic(arg.user_loc, df[out[k].row].lat)
            /\ \A k, l \in 1..Len(out) :
                   k < l =>
                       \/ out[k].d_m < out[l].d_m
                       \/ out[k].d_m = out[l].d_m /\ out[k].row < out[l].row

\* C7 witness: a row exactly on the boundary is returned, a farther row is
\* dropped, and two rows at equal distance were given in the frame after a
\* farther one that is returned behind them.
C7_Witness ==
    /\ Done("incidents_within_radius")
    /\ arg.radius_m > 0
    /\ \E k \in 1..Len(result.value) : result.value[k].d_m = arg.radius_m
    /\ \E i \in 1..Len(df) : Geodesic(arg.user_loc, df[i].lat) > arg.radius_m
    /\ \E k, l \in 1..Len(result.value) :
           /\ k < l
           /\ result.value[k].d_m = result.value[l].d_m
           /\ df[result.value[k].row].lat # df[result.value[l].row].lat
    /\ \E k, l \in 1..Len(result.value) :
           k < l /\ result.value[k].row > result.value[l].row

RankedBefore(stats, a, b) ==
    \/ stats[a].high_risk_incidents > stats[b].high_risk_incidents
    \/ /\ stats[a].high_risk_incidents = stats[b].high_risk_incidents
       /\ a < b

\* C8: the listed high-risk areas are in descending order of their
\* high-severity count and, among equal counts, in ascending order of name.
C8_RankingDeterministic ==
    Done("high_risk_areas") =>
        \A k, l \in 1..Len(result.value) :
            k < l => RankedBefore(area_stats(df), result.value[k], result.value[l])

\* C9: a time filter outside the four known values, or a negative radius,
\* is rejected with an error, and the report store is left as it was.
C9_InvalidRejected ==
    [][(/\ phase' = "done"
        /\ \/ arg.fn = "filter_by_time" /\ arg.time_filter_val \notin TimeFilters
           \/ arg.fn = "incidents_within_radius" /\ arg.radius_m < 0)
       => (result'.raised /\ UNCHANGED storeVars)]_vars

=============================================================================
